---- MODULE Spec2Model ----
(***************************************************************************)
(* State-machine model of the X-ray upload form, app/routes/_index.tsx    *)
(* (component Index, lines 94-275): file selection with client-side       *)
(* image compression, the classification submit and the Eigencam          *)
(* heat-map request.                                                       *)
(*                                                                         *)
(* Nullable values (File | null, string | null, ...) are sequences of     *)
(* length at most one: <<>> is null, <<v>> is the value v.                 *)
(***************************************************************************)
EXTENDS Integers, Sequences, FiniteSets, TLC

(***************************************************************************)
(* Bounds of the model.                                                    *)
(***************************************************************************)
\* file-selection events (handleFileChange invocations) in one run
MaxSelections == 2
\* handleSubmit invocations in one run
MaxSubmits == 2
\* handleGenerateEigencam invocations in one run
MaxEigencams == 2
\* largest value of the host clock (Date.now()); the clock starts at 1
MaxTime == 2

(***************************************************************************)
(* Program constants.                                                      *)
(***************************************************************************)
\* `originalFile.size > 1024 * 1024`
SizeGate == 1024 * 1024
\* `const maxSize = 800`
maxSize == 800
\* `canvas.toBlob(..., 'image/jpeg', 0.8)`, "80% quality", in percent
JpegQuality == 80
\* a fresh <canvas> element is 300 x 150
DefaultCanvasWidth == 300
DefaultCanvasHeight == 150

Null == <<>>
Some(v) == <<v>>

Max(a, b) == IF a > b THEN a ELSE b
Min(a, b) == IF a < b THEN a ELSE b

(***************************************************************************)
(* Pictures the user can pick: name, declared media type, byte length,    *)
(* and what the host's image decoder makes of the content.                 *)
(***************************************************************************)
Picture(n, t, s, w, h, d) ==
  [name |-> n, type |-> t, size |-> s, width |-> w, height |-> h, decodable |-> d]

\* the pictures of the form model: the two end-to-end scenarios of the
\* specification and a DICOM file, which the <img> decoder rejects
Pictures ==
  { Picture("small.png", "image/png", 500 * 1024, 400, 300, TRUE),
    Picture("chest.jpg", "image/jpeg", 3 * 1024 * 1024, 2400, 1600, TRUE),
    Picture("study.dcm", "application/dicom", 3 * 1024 * 1024, 0, 0, FALSE) }

\* the pictures of the model of overlapping selections: two pictures above
\* the size gate that scale to different surfaces, one below it, and one
\* the decoder rejects
SelectPictures ==
  { Picture("small.png", "image/png", 500 * 1024, 400, 300, TRUE),
    Picture("chest.jpg", "image/jpeg", 3 * 1024 * 1024, 2400, 1600, TRUE),
    Picture("spine.jpg", "image/jpeg", 2 * 1024 * 1024, 1000, 2000, TRUE),
    Picture("study.dcm", "application/dicom", 3 * 1024 * 1024, 0, 0, FALSE) }

\* edge lengths around the 800 px constraint, for the compression model
Edges == {1, 2, 3, 299, 300, 400, 533, 799, 800, 801, 802, 1199, 1200, 1600, 1601, 2399, 2400}
Sizes == {500 * 1024, SizeGate - 1, SizeGate, SizeGate + 1, 3 * 1024 * 1024}

WidePictures ==
  { Picture("x.png", "image/png", s, w, h, TRUE) : s \in Sizes, w \in Edges, h \in Edges }
    \cup { Picture("x.dcm", "application/dicom", s, 0, 0, FALSE) : s \in Sizes }

(***************************************************************************)
(* File objects.  id identifies the object: sel is the selection event    *)
(* that produced it, gen is 0 for the File of the <input> and 1 for the    *)
(* File that compressImage constructs.  data is the content: the picture  *)
(* it shows, its pixel size, and the encoder (quality 0: not re-encoded). *)
(***************************************************************************)
InputFile(k, p) ==
  [id |-> [sel |-> k, gen |-> 0], name |-> p.name, type |-> p.type,
   size |-> p.size, lastModified |-> 0,
   data |-> [pic |-> p, width |-> p.width, height |-> p.height, quality |-> 0]]

\* canvas.toBlob payload: JPEG of the canvas bitmap at the given quality.
\* The byte lengths the encoder can produce: in the form model one, in the
\* compression model one below and one above the size gate.
EncodedSizes == {200 * 1024}
WideEncodedSizes == {200 * 1024, 1200 * 1024}
Blob(p, w, h, q, s) ==
  [type |-> "image/jpeg", size |-> s,
   data |-> [pic |-> p, width |-> w, height |-> h, quality |-> q]]

\* new File([blob], file.name, {type: 'image/jpeg', lastModified: Date.now()})
\* (faulty variant: the new File keeps the type of the input)
CompressedFileKeepType(f, blob, t) ==
  [id |-> [sel |-> f.id.sel, gen |-> 1], name |-> f.name, type |-> f.type,
   size |-> blob.size, lastModified |-> t, data |-> blob.data]

CompressedFile(f, blob, t) ==
  [id |-> [sel |-> f.id.sel, gen |-> 1], name |-> f.name, type |-> "image/jpeg",
   size |-> blob.size, lastModified |-> t, data |-> blob.data]

(***************************************************************************)
(* compressImage, img.onload: the target dimensions.  JavaScript numbers   *)
(* are doubles, so (height * maxSize) / width is a fraction; it is kept   *)
(* exactly, as numerator and denominator.                                  *)
(***************************************************************************)
Frac(n, d) == [num |-> n, den |-> d]

\* (faulty variant: the branch for H >= W is missing)
TargetDimensionsNoElse(W, H) ==
  IF W > H
    THEN IF W > maxSize
           THEN [width |-> Frac(maxSize, 1), height |-> Frac(H * maxSize, W)]
           ELSE [width |-> Frac(W, 1), height |-> Frac(H, 1)]
    ELSE [width |-> Frac(W, 1), height |-> Frac(H, 1)]

\* (faulty variant: each edge is clamped on its own)
TargetDimensionsStretch(W, H) ==
  IF Max(W, H) > maxSize
    THEN [width |-> Frac(Min(W, maxSize), 1), height |-> Frac(Min(H, maxSize), 1)]
    ELSE [width |-> Frac(W, 1), height |-> Frac(H, 1)]

TargetDimensions(W, H) ==
  IF W > H
    THEN IF W > maxSize
           THEN [width |-> Frac(maxSize, 1), height |-> Frac(H * maxSize, W)]
           ELSE [width |-> Frac(W, 1), height |-> Frac(H, 1)]
    ELSE IF H > maxSize
           THEN [width |-> Frac(W * maxSize, H), height |-> Frac(maxSize, 1)]
           ELSE [width |-> Frac(W, 1), height |-> Frac(H, 1)]

\* `canvas.width = width`: the attribute is an unsigned long; the double is
\* truncated toward zero (the values here stay far below 2^32, where the
\* conversion would wrap).  The quotient of two integers below 2^31 never
\* rounds up to the next integer as a double, so the truncation of the
\* double is the integer quotient.
ToUnsignedLong(r) == r.num \div r.den

(***************************************************************************)
(* canvas.toBlob: the payloads the host encoder can deliver for a canvas.  *)
(* A canvas without pixels (a zero dimension) always yields null; for any  *)
(* other canvas the encoder yields a JPEG of the bitmap, or null when it   *)
(* fails.                                                                  *)
(***************************************************************************)
ToBlobResults(p, canvas, sizes) ==
  IF canvas.width = 0 \/ canvas.height = 0
    THEN {Null}
    ELSE {Null} \cup
         { Some(Blob(p, canvas.width, canvas.height, JpegQuality, s)) : s \in sizes }

\* the toBlob callback: what compressImage's promise resolves with
\* (faulty variant: no null check, a File is built from the null blob)
CompressResultNoFallback(f, blob, t) ==
  CompressedFile(f, IF blob # Null THEN blob[1] ELSE Blob(f.data.pic, 0, 0, JpegQuality, 0), t)

\* (faulty variant: the new File copies the input's lastModified)
CompressResultOldStamp(f, blob, t) ==
  IF blob # Null THEN CompressedFile(f, blob[1], f.lastModified) ELSE f

CompressResult(f, blob, t) ==
  IF blob # Null THEN CompressedFile(f, blob[1], t) ELSE f

\* `if (originalFile.size > 1024 * 1024)`
\* (faulty variant: no size gate, every file is compressed)
NeedsCompressionAlways(f) == f.size >= 0

\* (faulty variant: >= instead of >)
NeedsCompressionInclusive(f) == f.size >= SizeGate

NeedsCompression(f) == f.size > SizeGate

(***************************************************************************)
(* Messages (the Vietnamese ones without their diacritics).                *)
(***************************************************************************)
MsgChooseFile == "Vui long chon file anh X-quang!"
MsgRequestFailed == "API request failed"
MsgAnalyzeFailed == "Phan tich khong thanh cong"
MsgSubmitDefault == "Co loi xay ra khi gui file hoac goi API."
MsgNoIds == "Khong co ID Cloudinary hoac ten model tu ket qua phan tich de tao Eigencam."
MsgEigencamRequestFailed == "API Eigencam request failed"
MsgEigencamFailed == "Tao Eigencam khong thanh cong"
MsgEigencamDefault == "Co loi xay ra khi tao Eigencam."
\* messages of errors the host raises
MsgFetchRejected == "Failed to fetch"
MsgJsonSyntax == "Unexpected token < in JSON"

(***************************************************************************)
(* State.  The *Calls variables hold the invocations of the three async    *)
(* handlers that are suspended at an await; the *Done variables hold the   *)
(* invocation that returned in the step just taken (null when no           *)
(* invocation of that handler returned in it); selections, submits and     *)
(* eigencams count the invocations started.                                *)
(***************************************************************************)
VARIABLES
  file,             \* useState<File | null>
  clinicalInfo,     \* {initial_diagnosis, symptoms}
  result,           \* useState<AnalyzeResponse | null>
  loading,
  error,            \* useState<string | null>
  eigencamUrl,      \* useState<string | null>
  loadingEigencam,
  eigencamError,    \* useState<string | null>
  useOptimizedAPI,
  fileCalls,        \* handleFileChange invocations awaiting compressImage
  fileDone,         \* the handleFileChange invocation that has just returned
  selections,       \* change events of the file input so far
  submitCalls,      \* handleSubmit invocations awaiting fetch
  submitDone,       \* the handleSubmit invocation that has just returned
  submits,          \* handleSubmit invocations so far
  eigencamCalls,    \* handleGenerateEigencam invocations awaiting fetch
  eigencamDone,     \* the handleGenerateEigencam invocation that has just returned
  eigencams,        \* handleGenerateEigencam invocations so far
  now               \* the host clock, Date.now()

formVars == <<file, clinicalInfo, result, loading, error, eigencamUrl,
              loadingEigencam, eigencamError, useOptimizedAPI>>
fileVars == <<fileCalls, selections>>
submitVars == <<submitCalls, submits>>
eigencamVars == <<eigencamCalls, eigencams>>
vars == <<file, clinicalInfo, result, loading, error, eigencamUrl,
          loadingEigencam, eigencamError, useOptimizedAPI,
          fileCalls, fileDone, selections, submitCalls, submitDone, submits,
          eigencamCalls, eigencamDone, eigencams, now>>

Init ==
  /\ file = Null
  /\ clinicalInfo = [initial_diagnosis |-> "", symptoms |-> <<>>]
  /\ result = Null
  /\ loading = FALSE
  /\ error = Null
  /\ eigencamUrl = Null
  /\ loadingEigencam = FALSE
  /\ eigencamError = Null
  /\ useOptimizedAPI = TRUE
  /\ fileCalls = {}
  /\ fileDone = Null
  /\ selections = 0
  /\ submitCalls = {}
  /\ submitDone = Null
  /\ submits = 0
  /\ eigencamCalls = {}
  /\ eigencamDone = Null
  /\ eigencams = 0
  /\ now = 1

\* what a step records of the invocations that return in it
NoneReturns == fileDone' = Null /\ submitDone' = Null /\ eigencamDone' = Null
FileReturns(c) == fileDone' = Some(c) /\ submitDone' = Null /\ eigencamDone' = Null
SubmitReturns(c) == fileDone' = Null /\ submitDone' = Some(c) /\ eigencamDone' = Null
EigencamReturns(c) == fileDone' = Null /\ submitDone' = Null /\ eigencamDone' = Some(c)

\* the host clock advances
Tick ==
  /\ now < MaxTime
  /\ now' = now + 1
  /\ NoneReturns
  /\ UNCHANGED <<formVars, fileVars, submitVars, eigencamVars>>

(***************************************************************************)
(* handleFileChange and compressImage.                                     *)
(*                                                                         *)
(* An invocation record: orig is e.target.files[0]; compress tells whether *)
(* compressImage was called; pc is where the invocation stands:            *)
(*   "decoding"  compressImage has set img.src, the load is pending        *)
(*   "encoding"  img.onload has run, the toBlob callback is pending        *)
(*   "error"     the image failed to load (img has no onerror handler)     *)
(*   "threw"     img.onload threw before it reached toBlob                 *)
(*   "done"      handleFileChange has returned                             *)
(* target and canvas are the onload's dimensions, blob the encoder's       *)
(* payload, stored the argument of setFile, steps the steps taken so far,  *)
(* objectURL whether URL.createObjectURL(file) is allocated.               *)
(***************************************************************************)
NewFileCall(f) ==
  [orig |-> f, compress |-> FALSE, pc |-> "done", target |-> Null,
   canvas |-> [width |-> DefaultCanvasWidth, height |-> DefaultCanvasHeight],
   blob |-> Null, stored |-> Null, steps |-> <<>>, objectURL |-> FALSE]

\* lines 175-178, after setFile
\* (faulty variant: only result and error are cleared, as in the first
\* version of the component)
ClearResultsOnlyTwo ==
  /\ result' = Null
  /\ error' = Null
  /\ eigencamUrl' = eigencamUrl
  /\ eigencamError' = eigencamError

ClearResults ==
  /\ result' = Null
  /\ error' = Null
  /\ eigencamUrl' = Null
  /\ eigencamError' = Null

\* handleFileChange for the File f: lines 157-180 up to the await, and to
\* the end when the file passes the size gate
HandleFileChange(f) ==
  IF NeedsCompression(f)
    THEN /\ fileCalls' = fileCalls \cup
               {[NewFileCall(f) EXCEPT !.compress = TRUE, !.pc = "decoding",
                                       !.objectURL = TRUE]}
         /\ NoneReturns
         /\ UNCHANGED formVars
    ELSE /\ FileReturns([NewFileCall(f) EXCEPT !.stored = Some(f)])
         /\ file' = Some(f)
         /\ ClearResults
         /\ UNCHANGED <<clinicalInfo, loading, loadingEigencam, useOptimizedAPI,
                        fileCalls>>

\* the change event of the file input with a file the user picked
FileChange(pics, max) ==
  /\ selections < max
  /\ selections' = selections + 1
  /\ \E p \in pics : HandleFileChange(InputFile(selections + 1, p))
  /\ UNCHANGED <<submitVars, eigencamVars, now>>

\* the change event of the file input without a file (the picker emptied
\* the input): the test of line 158 fails and the handler returns
FileChangeEmpty(max) ==
  /\ selections < max
  /\ selections' = selections + 1
  /\ NoneReturns
  /\ UNCHANGED <<formVars, fileCalls, submitVars, eigencamVars, now>>

\* the preprocessing path applied to its own output: handleFileChange runs
\* on the File the form holds (one pending invocation per File object)
FileChangeAgain ==
  /\ selections < MaxSelections
  /\ file # Null
  /\ \A c \in fileCalls : c.orig # file[1]
  /\ selections' = selections + 1
  /\ HandleFileChange(file[1])
  /\ UNCHANGED <<submitVars, eigencamVars, now>>

\* img.onload, lines 119-151: measure, size the canvas, draw, start toBlob.
\* The draw either succeeds or throws; nothing in onload catches.
DrawOutcomes == {"drawn", "throws"}

\* the steps one run of img.onload takes, in the order of lines 120-151:
\* the image is decoded when onload fires, then the dimensions are
\* computed, the canvas is sized and drawn, and toBlob is started
\* (faulty variant: drawImage comes before the dimensions are computed)
OnloadStepsDrawFirst(d) ==
  IF d = "drawn" THEN <<"decode", "draw", "measure", "encode">> ELSE <<"decode">>

OnloadSteps(d) ==
  IF d = "drawn" THEN <<"decode", "measure", "draw", "encode">> ELSE <<"decode", "measure">>

ImgLoad ==
  /\ \E c \in fileCalls, d \in DrawOutcomes :
       /\ c.pc = "decoding"
       /\ c.orig.data.pic.decodable
       /\ LET t == TargetDimensions(c.orig.data.width, c.orig.data.height)
              cv == [width |-> ToUnsignedLong(t.width), height |-> ToUnsignedLong(t.height)]
          IN fileCalls' = (fileCalls \ {c}) \cup
               {[c EXCEPT !.target = Some(t), !.canvas = cv,
                          !.pc = IF d = "drawn" THEN "encoding" ELSE "threw",
                          !.steps = OnloadSteps(d)]}
  /\ NoneReturns
  /\ UNCHANGED <<formVars, selections, submitVars, eigencamVars, now>>

\* the image fails to load: the error event has no listener, the promise of
\* compressImage stays pending
\* (faulty variant: an onerror handler resolves with the original file)
ImgErrorResolves ==
  /\ \E c \in fileCalls :
       /\ c.pc = "decoding"
       /\ ~c.orig.data.pic.decodable
       /\ fileCalls' = fileCalls \ {c}
       /\ FileReturns([c EXCEPT !.pc = "done", !.stored = Some(c.orig)])
       /\ file' = Some(c.orig)
  /\ ClearResults
  /\ UNCHANGED <<clinicalInfo, loading, loadingEigencam, useOptimizedAPI,
                 selections, submitVars, eigencamVars, now>>

ImgError ==
  /\ \E c \in fileCalls :
       /\ c.pc = "decoding"
       /\ ~c.orig.data.pic.decodable
       /\ fileCalls' = (fileCalls \ {c}) \cup {[c EXCEPT !.pc = "error"]}
  /\ NoneReturns
  /\ UNCHANGED <<formVars, selections, submitVars, eigencamVars, now>>

\* the canvas whose bitmap the toBlob of invocation c encodes, calls being
\* the invocations in flight: `const canvas = document.createElement
\* ('canvas')` of line 115 is local to the invocation
\* (faulty variant: one canvas shared by all invocations, which holds what
\* the onload of the latest selection sized and drew)
SurfaceShared(c, calls) ==
  (CHOOSE d \in calls :
     /\ d.pc = "encoding"
     /\ \A e \in calls : e.pc = "encoding" => e.orig.id.sel <= d.orig.id.sel).canvas

Surface(c, calls) == c.canvas

\* the toBlob callback, lines 140-149, and the rest of handleFileChange
\* that the resolved promise resumes, lines 164-178
ToBlobCallback(sizes) ==
  /\ \E c \in fileCalls :
       /\ c.pc = "encoding"
       /\ \E b \in ToBlobResults(c.orig.data.pic, Surface(c, fileCalls), sizes) :
            LET r == CompressResult(c.orig, b, now) IN
              /\ fileCalls' = fileCalls \ {c}
              /\ FileReturns([c EXCEPT !.blob = b, !.stored = Some(r), !.pc = "done",
                     !.steps = c.steps \o (IF b # Null THEN <<"construct">> ELSE <<>>)
                                       \o <<"deliver">>])
              /\ file' = Some(r)
  /\ ClearResults
  /\ UNCHANGED <<clinicalInfo, loading, loadingEigencam, useOptimizedAPI,
                 selections, submitVars, eigencamVars, now>>

(***************************************************************************)
(* The other controls of the form.                                         *)
(***************************************************************************)
validLabels == {"Normal", "Pneumonia"}
symptomOptions == {"fever", "dyspnea", "cough", "wheezing"}
\* the symptoms the user of the model toggles
SymptomChoices == {"fever"}
\* the diagnoses the user of the model picks
DiagnosisChoices == {"Pneumonia"}

\* the remove-file button, rendered while a file is stored: setFile(null)
RemoveFile ==
  /\ file # Null
  /\ file' = Null
  /\ NoneReturns
  /\ UNCHANGED <<clinicalInfo, result, loading, error, eigencamUrl, loadingEigencam,
                 eigencamError, useOptimizedAPI, fileVars, submitVars, eigencamVars, now>>

\* a diagnosis radio button: the change event fires when the choice changes
DiagnosisChange ==
  /\ \E v \in DiagnosisChoices \cap validLabels :
       /\ v # clinicalInfo.initial_diagnosis
       /\ clinicalInfo' = [clinicalInfo EXCEPT !.initial_diagnosis = v]
  /\ NoneReturns
  /\ UNCHANGED <<file, result, loading, error, eigencamUrl, loadingEigencam,
                 eigencamError, useOptimizedAPI, fileVars, submitVars, eigencamVars, now>>

SeqContains(q, v) == \E j \in 1..Len(q) : q[j] = v
SeqFilterOut(q, v) == SelectSeq(q, LAMBDA x : x # v)

\* handleSymptomChange: toggle a symptom
SymptomChange ==
  /\ \E v \in SymptomChoices \cap symptomOptions :
       clinicalInfo' = [clinicalInfo EXCEPT !.symptoms =
                          IF SeqContains(@, v) THEN SeqFilterOut(@, v) ELSE Append(@, v)]
  /\ NoneReturns
  /\ UNCHANGED <<file, result, loading, error, eigencamUrl, loadingEigencam,
                 eigencamError, useOptimizedAPI, fileVars, submitVars, eigencamVars, now>>

\* the API-mode radio buttons: setUseOptimizedAPI(true / false)
\* (faulty variant: switching the API mode also drops the stored file)
ToggleApiModeDropsFile ==
  /\ useOptimizedAPI' = ~useOptimizedAPI
  /\ file' = Null
  /\ NoneReturns
  /\ UNCHANGED <<clinicalInfo, result, loading, error, eigencamUrl, loadingEigencam,
                 eigencamError, fileVars, submitVars, eigencamVars, now>>

ToggleApiMode ==
  /\ useOptimizedAPI' = ~useOptimizedAPI
  /\ NoneReturns
  /\ UNCHANGED <<file, clinicalInfo, result, loading, error, eigencamUrl, loadingEigencam,
                 eigencamError, fileVars, submitVars, eigencamVars, now>>

(***************************************************************************)
(* handleSubmit.                                                           *)
(***************************************************************************)
\* JavaScript `a || b` on strings
OrElse(a, b) == IF a = "" THEN b ELSE a

\* JSON.stringify(clinicalInfo), as the sequence of its tokens
\* (faulty variant: only initial_diagnosis is encoded)
JSONStringifyDiagnosisOnly(ci) ==
  <<"{", "initial_diagnosis", ":", ci.initial_diagnosis, "}">>

JSONStringify(ci) ==
  <<"{", "initial_diagnosis", ":", ci.initial_diagnosis, ",", "symptoms", ":", "[">>
    \o ci.symptoms \o <<"]", "}">>

Endpoint(optimized) == IF optimized THEN "analyze-optimized" ELSE "analyze"

\* what the classification fetch can settle with for the i-th submit:
\* kind "rejected" is a rejected fetch, kind "response" an HTTP response
\* with its ok flag and its body (null when the body is not JSON)
AnalyzeBody(s, m, cid, mn) ==
  [success |-> s, message |-> m, data |-> [cloudinaryId |-> cid, modelName |-> mn]]

AnalyzeResponses(i) ==
  { [call |-> i, kind |-> "rejected", ok |-> FALSE, body |-> Null],
    [call |-> i, kind |-> "response", ok |-> FALSE, body |-> Null],
    [call |-> i, kind |-> "response", ok |-> TRUE, body |-> Null],
    [call |-> i, kind |-> "response", ok |-> TRUE,
     body |-> Some(AnalyzeBody(FALSE, "", Null, Null))],
    [call |-> i, kind |-> "response", ok |-> TRUE,
     body |-> Some(AnalyzeBody(FALSE, "Image rejected", Null, Null))],
    [call |-> i, kind |-> "response", ok |-> TRUE,
     body |-> Some(AnalyzeBody(TRUE, "ok", Some(i), Some("resnet")))],
    [call |-> i, kind |-> "response", ok |-> TRUE,
     body |-> Some(AnalyzeBody(TRUE, "ok", Null, Some("resnet")))],
    [call |-> i, kind |-> "response", ok |-> TRUE,
     body |-> Some(AnalyzeBody(TRUE, "ok", Some(i), Null))] }

\* the fetch did not deliver a body with success = true
AnalyzeFailed(r) ==
  r.kind = "rejected" \/ ~r.ok \/ r.body = Null \/ ~r.body[1].success

\* lines 212-228: the try block and its catch, as the pair of setResult's
\* and setError's arguments (null: the setter is not called)
\* (faulty variant: the catch does not call setError)
SubmitOutcomeSilentCatch(r) ==
  IF r.kind = "rejected" \/ ~r.ok \/ r.body = Null \/ ~r.body[1].success
    THEN [result |-> Null, error |-> Null]
    ELSE [result |-> r.body, error |-> Null]

\* (faulty variant: `if (!data.success) throw` is missing)
SubmitOutcomeNoSuccessCheck(r) ==
  IF r.kind = "rejected"
    THEN [result |-> Null, error |-> Some(OrElse(MsgFetchRejected, MsgSubmitDefault))]
  ELSE IF ~r.ok
    THEN [result |-> Null, error |-> Some(OrElse(MsgRequestFailed, MsgSubmitDefault))]
  ELSE IF r.body = Null
    THEN [result |-> Null, error |-> Some(OrElse(MsgJsonSyntax, MsgSubmitDefault))]
  ELSE [result |-> r.body, error |-> Null]

SubmitOutcome(r) ==
  IF r.kind = "rejected"
    THEN [result |-> Null, error |-> Some(OrElse(MsgFetchRejected, MsgSubmitDefault))]
  ELSE IF ~r.ok
    THEN [result |-> Null, error |-> Some(OrElse(MsgRequestFailed, MsgSubmitDefault))]
  ELSE IF r.body = Null
    THEN [result |-> Null, error |-> Some(OrElse(MsgJsonSyntax, MsgSubmitDefault))]
  ELSE IF ~r.body[1].success
    THEN [result |-> Null,
          error |-> Some(OrElse(OrElse(r.body[1].message, MsgAnalyzeFailed), MsgSubmitDefault))]
  ELSE [result |-> r.body, error |-> Null]

\* the finally block, line 230: the argument of setLoading when the fetch
\* has settled with r
\* (faulty variant: setLoading(false) at the end of the try block)
LoadingAfterSubmitTryOnly(r) == AnalyzeFailed(r) /\ loading

LoadingAfterSubmit(r) == FALSE

\* the submit button is `disabled={!file || loading}`
\* (faulty variant: `disabled={!file}`)
SubmitEnabledNoLoading == file # Null

SubmitEnabled == file # Null /\ ~loading

\* lines 197-200: what handleSubmit leaves in error when no file is stored
\* (faulty variant: the handler returns without a message, as the first
\* version of the component does)
NoFileErrorSilent == error

NoFileError == Some(MsgChooseFile)

\* handleSubmit up to the await of fetch, lines 195-221.  ui: the event
\* comes from the rendered form, which submits only through the enabled
\* button; otherwise the handler is invoked directly.
Submit(ui) ==
  /\ submits < MaxSubmits
  /\ ui => SubmitEnabled
  /\ submits' = submits + 1
  /\ IF file = Null
       THEN /\ error' = NoFileError
            /\ SubmitReturns([id |-> submits + 1, pc |-> "done", request |-> Null,
                              fetches |-> 0, response |-> Null])
            /\ UNCHANGED <<result, loading, eigencamUrl, eigencamError, submitCalls>>
       ELSE /\ submitCalls' = submitCalls \cup
                 {[id |-> submits + 1, pc |-> "fetching",
                   request |-> Some([endpoint |-> Endpoint(useOptimizedAPI),
                                     image |-> file[1],
                                     clinical_info |-> JSONStringify(clinicalInfo)]),
                   fetches |-> 1, response |-> Null]}
            /\ loading' = TRUE
            /\ error' = Null
            /\ result' = Null
            /\ eigencamUrl' = Null
            /\ eigencamError' = Null
            /\ NoneReturns
  /\ UNCHANGED <<file, clinicalInfo, loadingEigencam, useOptimizedAPI,
                 fileVars, eigencamVars, now>>

\* the fetch settles: the rest of the try, the catch and the finally,
\* lines 222-231.  The handler reads no state between `await fetch` and
\* `await res.json()`, so the two awaits are one step.
SubmitSettle ==
  /\ \E c \in submitCalls :
       \E r \in AnalyzeResponses(c.id) :
         LET o == SubmitOutcome(r) IN
           /\ submitCalls' = submitCalls \ {c}
           /\ SubmitReturns([c EXCEPT !.pc = "done", !.response = Some(r)])
           /\ result' = IF o.result # Null THEN o.result ELSE result
           /\ error' = IF o.error # Null THEN o.error ELSE error
           /\ loading' = LoadingAfterSubmit(r)
  /\ UNCHANGED <<file, clinicalInfo, eigencamUrl, loadingEigencam, eigencamError,
                 useOptimizedAPI, submits, fileVars, eigencamVars, now>>

(***************************************************************************)
(* handleGenerateEigencam.                                                 *)
(***************************************************************************)
\* line 235: `!result || !result.data.cloudinaryId || !result.data.modelName`
\* (faulty variant: only `!result` is tested)
MissingIdsOnlyResult(res) == res = Null

MissingIds(res) ==
  res = Null \/ res[1].data.cloudinaryId = Null \/ res[1].data.modelName = Null

\* the button is rendered inside `result && result.success`, under
\* `result.data.cloudinaryId && result.data.modelName`, and is
\* `disabled={loadingEigencam}`
EigencamEnabled ==
  /\ result # Null
  /\ result[1].success
  /\ result[1].data.cloudinaryId # Null
  /\ result[1].data.modelName # Null
  /\ ~loadingEigencam

HeatmapUrl(req) == [cloudinary_id |-> req.cloudinary_id, model_name |-> req.model_name]

\* what the Eigencam fetch can settle with for a request (the body of the
\* request is JSON.stringify of its two fields, which drops a field that is
\* undefined); a missing string field of a response body is ""
EigencamBody(s, url, e, d) == [success |-> s, eigencam_url |-> url, error |-> e, detail |-> d]

EigencamResponses(req) ==
  { [kind |-> "rejected", ok |-> FALSE, body |-> Null],
    [kind |-> "response", ok |-> FALSE, body |-> Null],
    [kind |-> "response", ok |-> FALSE, body |-> Some(EigencamBody(FALSE, Null, "", ""))],
    [kind |-> "response", ok |-> FALSE,
     body |-> Some(EigencamBody(FALSE, Null, "", "Model not found"))],
    [kind |-> "response", ok |-> TRUE, body |-> Null],
    [kind |-> "response", ok |-> TRUE,
     body |-> Some(EigencamBody(TRUE, Some(HeatmapUrl(req)), "", ""))],
    [kind |-> "response", ok |-> TRUE, body |-> Some(EigencamBody(TRUE, Null, "", ""))],
    [kind |-> "response", ok |-> TRUE,
     body |-> Some(EigencamBody(FALSE, Null, "Image not found", ""))] }

\* lines 246-271: the try block and its catch, as the pair of
\* setEigencamUrl's and setEigencamError's arguments
EigencamOutcome(r) ==
  IF r.kind = "rejected"
    THEN [url |-> Null, error |-> Some(OrElse(MsgFetchRejected, MsgEigencamDefault))]
  ELSE IF r.body = Null
    THEN [url |-> Null, error |-> Some(OrElse(MsgJsonSyntax, MsgEigencamDefault))]
  ELSE IF ~r.ok
    THEN [url |-> Null,
          error |-> Some(OrElse(OrElse(r.body[1].detail, MsgEigencamRequestFailed),
                                MsgEigencamDefault))]
  ELSE IF r.body[1].success /\ r.body[1].eigencam_url # Null
    THEN [url |-> r.body[1].eigencam_url, error |-> Null]
  ELSE [url |-> Null,
        error |-> Some(OrElse(OrElse(r.body[1].error, MsgEigencamFailed), MsgEigencamDefault))]

\* the finally block, line 273
\* (faulty variant: setLoadingEigencam(false) at the end of the try block)
LoadingAfterEigencamTryOnly(r) == EigencamOutcome(r).url = Null /\ loadingEigencam

LoadingAfterEigencam(r) == FALSE

\* lines 250-253: the body of the heat-map request, from the stored result
\* (faulty variant: the model name is a fixed one, not the result's)
EigencamRequestFixedModel(res) ==
  [cloudinary_id |-> res.data.cloudinaryId, model_name |-> Some("densenet")]

EigencamRequest(res) ==
  [cloudinary_id |-> res.data.cloudinaryId, model_name |-> res.data.modelName]

\* handleGenerateEigencam up to the await of fetch, lines 234-257
GenerateEigencam(ui) ==
  /\ eigencams < MaxEigencams
  /\ ui => EigencamEnabled
  /\ eigencams' = eigencams + 1
  /\ IF MissingIds(result)
       THEN /\ eigencamError' = Some(MsgNoIds)
            /\ EigencamReturns([id |-> eigencams + 1, pc |-> "done", request |-> Null,
                                fetches |-> 0, response |-> Null])
            /\ UNCHANGED <<loadingEigencam, eigencamUrl, eigencamCalls>>
       ELSE /\ eigencamCalls' = eigencamCalls \cup
                 {[id |-> eigencams + 1, pc |-> "fetching",
                   request |-> Some(EigencamRequest(result[1])),
                   fetches |-> 1, response |-> Null]}
            /\ loadingEigencam' = TRUE
            /\ eigencamError' = Null
            /\ eigencamUrl' = Null
            /\ NoneReturns
  /\ UNCHANGED <<file, clinicalInfo, result, loading, error, useOptimizedAPI,
                 fileVars, submitVars, now>>

\* the fetch settles: lines 259-274
\* (faulty variant: the catch reports through setError, the error state
\* of the classification)
EigencamSettleSetsError ==
  /\ \E c \in eigencamCalls :
       \E r \in EigencamResponses(c.request[1]) :
         LET o == EigencamOutcome(r) IN
           /\ eigencamCalls' = eigencamCalls \ {c}
           /\ EigencamReturns([c EXCEPT !.pc = "done", !.response = Some(r)])
           /\ eigencamUrl' = IF o.url # Null THEN o.url ELSE eigencamUrl
           /\ error' = IF o.error # Null THEN o.error ELSE error
           /\ loadingEigencam' = LoadingAfterEigencam(r)
  /\ UNCHANGED <<file, clinicalInfo, result, loading, eigencamError, useOptimizedAPI,
                 eigencams, fileVars, submitVars, now>>

EigencamSettle ==
  /\ \E c \in eigencamCalls :
       \E r \in EigencamResponses(c.request[1]) :
         LET o == EigencamOutcome(r) IN
           /\ eigencamCalls' = eigencamCalls \ {c}
           /\ EigencamReturns([c EXCEPT !.pc = "done", !.response = Some(r)])
           /\ eigencamUrl' = IF o.url # Null THEN o.url ELSE eigencamUrl
           /\ eigencamError' = IF o.error # Null THEN o.error ELSE eigencamError
           /\ loadingEigencam' = LoadingAfterEigencam(r)
  /\ UNCHANGED <<file, clinicalInfo, result, loading, error, useOptimizedAPI,
                 eigencams, fileVars, submitVars, now>>

(***************************************************************************)
(* The form as the user drives it: every event comes from a rendered,      *)
(* enabled control.  The clinical-information controls and the API-mode    *)
(* toggle are driven in SpecInfo below.                                    *)
(***************************************************************************)
Next ==
  \/ FileChange(Pictures, MaxSelections)
  \/ ImgLoad
  \/ ImgError
  \/ ToBlobCallback(EncodedSizes)
  \/ RemoveFile
  \/ Submit(TRUE)
  \/ SubmitSettle
  \/ GenerateEigencam(TRUE)
  \/ EigencamSettle

Spec == Init /\ [][Next]_vars

(***************************************************************************)
(* The form with one file selection, under the assumption that a request   *)
(* that was sent eventually settles.                                       *)
(***************************************************************************)
NextLive ==
  \/ FileChange(Pictures, 1)
  \/ ImgLoad
  \/ ImgError
  \/ ToBlobCallback(EncodedSizes)
  \/ RemoveFile
  \/ Submit(TRUE)
  \/ SubmitSettle
  \/ GenerateEigencam(TRUE)
  \/ EigencamSettle

FairSpec ==
  Init /\ [][NextLive]_vars /\ WF_vars(SubmitSettle) /\ WF_vars(EigencamSettle)

(***************************************************************************)
(* The form with its clinical-information controls and API-mode toggle.    *)
(***************************************************************************)
NextInfo ==
  \/ FileChange(Pictures, 1)
  \/ ImgLoad
  \/ ImgError
  \/ ToBlobCallback(EncodedSizes)
  \/ RemoveFile
  \/ DiagnosisChange
  \/ SymptomChange
  \/ ToggleApiMode
  \/ Submit(TRUE)
  \/ SubmitSettle

SpecInfo == Init /\ [][NextInfo]_vars

(***************************************************************************)
(* The handlers invoked directly, whatever the form renders.               *)
(***************************************************************************)
NextHandlers ==
  \/ FileChange(Pictures, 1)
  \/ ImgLoad
  \/ ImgError
  \/ ToBlobCallback(EncodedSizes)
  \/ Submit(FALSE)
  \/ SubmitSettle
  \/ GenerateEigencam(FALSE)
  \/ EigencamSettle

SpecHandlers == Init /\ [][NextHandlers]_vars

(***************************************************************************)
(* The compression model: one selection out of the wide range of pictures, *)
(* under a running clock.                                                  *)
(***************************************************************************)
NextPre ==
  \/ FileChange(WidePictures, 1)
  \/ ImgLoad
  \/ ImgError
  \/ ToBlobCallback(WideEncodedSizes)
  \/ Tick

SpecPre == Init /\ [][NextPre]_vars

(***************************************************************************)
(* The preprocessing path applied to its own output: one selection out of  *)
(* the wide range of pictures, then handleFileChange on the stored file.   *)
(***************************************************************************)
NextTwice ==
  \/ FileChange(WidePictures, 1)
  \/ FileChangeAgain
  \/ ImgLoad
  \/ ImgError
  \/ ToBlobCallback(EncodedSizes)

SpecTwice == Init /\ [][NextTwice]_vars

(***************************************************************************)
(* The file input alone: selections that overlap, and the remove-file      *)
(* button.                                                                 *)
(***************************************************************************)
NextSelect ==
  \/ FileChange(SelectPictures, MaxSelections)
  \/ ImgLoad
  \/ ImgError
  \/ ToBlobCallback(EncodedSizes)
  \/ RemoveFile

SpecSelect == Init /\ [][NextSelect]_vars

(***************************************************************************)
(* Every handler of the form, invoked directly, with one file selection.   *)
(***************************************************************************)
NextFrame ==
  \/ FileChange(Pictures, 1)
  \/ ImgLoad
  \/ ImgError
  \/ ToBlobCallback(EncodedSizes)
  \/ RemoveFile
  \/ DiagnosisChange
  \/ SymptomChange
  \/ ToggleApiMode
  \/ Submit(TRUE)
  \/ SubmitSettle
  \/ GenerateEigencam(TRUE)
  \/ EigencamSettle

SpecFrame == Init /\ [][NextFrame]_vars

(***************************************************************************)
(* The rendered form with change events of the file input that carry a     *)
(* file the decoder accepts and change events that carry none.             *)
(***************************************************************************)
NextClear ==
  \/ FileChange({p \in Pictures : p.decodable}, MaxSelections)
  \/ FileChangeEmpty(MaxSelections)
  \/ ImgLoad
  \/ ToBlobCallback(EncodedSizes)
  \/ Submit(TRUE)
  \/ SubmitSettle
  \/ GenerateEigencam(TRUE)
  \/ EigencamSettle

SpecClear == Init /\ [][NextClear]_vars

(***************************************************************************)
(* handleSubmit invoked directly on a form whose file can be removed.      *)
(***************************************************************************)
NextValidate ==
  \/ FileChange({p \in Pictures : p.size <= SizeGate}, 1)
  \/ RemoveFile
  \/ Submit(FALSE)
  \/ SubmitSettle
  \/ GenerateEigencam(TRUE)
  \/ EigencamSettle

SpecValidate == Init /\ [][NextValidate]_vars

(***************************************************************************)
(* Properties.                                                             *)
(***************************************************************************)
\* every handleFileChange invocation the state knows: those suspended and
\* the one that has just returned
AllFileCalls == fileCalls \cup (IF fileDone = Null THEN {} ELSE {fileDone[1]})

Abs(x) == IF x < 0 THEN -x ELSE x

\* the fraction r equals n / d (both in lowest terms; the cross products
\* would exceed 32-bit integers)
RECURSIVE Gcd(_, _)
Gcd(a, b) == IF b = 0 THEN a ELSE Gcd(b, a % b)
Lowest(r) == [num |-> r.num \div Gcd(r.num, r.den), den |-> r.den \div Gcd(r.num, r.den)]
FracIs(r, n, d) == Lowest(r) = Lowest(Frac(n, d))

\* a handleFileChange invocation returns in this step
FileCallReturns == fileDone' # Null

\* C1: a selected file of at most 1024*1024 bytes is stored as the form's
\* file as the very object the input delivered, and compressImage is never
\* started for it: no invocation for such a file is ever suspended in
\* compressImage, and the invocation that returned took no decode, measure,
\* draw or encode step and allocated nothing.
C1_SizeGate ==
  /\ \A c \in fileCalls : c.orig.size > 1024 * 1024
  /\ \A c \in AllFileCalls :
       c.orig.size <= 1024 * 1024 =>
         /\ c.pc = "done"
         /\ ~c.compress
         /\ c.steps = <<>>
         /\ c.target = Null /\ c.blob = Null /\ ~c.objectURL
         /\ c.stored = Some(c.orig)
         /\ file = Some(c.orig)

C1_Witness ==
  /\ fileDone # Null
  /\ fileDone[1].orig.size = 1024 * 1024
  /\ file = Some(fileDone[1].orig)
  /\ ~fileDone[1].compress

\* C2: a failed decode or a throwing draw never blocks the upload: no
\* invocation of handleFileChange for a file above 1 MiB stays suspended
\* after its image failed to load or its onload threw; it has completed and
\* stored the original file.
C2_FailureNeverBlocks ==
  \A c \in fileCalls : c.pc \notin {"error", "threw"}

\* C3: when the encoder delivers no payload for a decoded file above 1 MiB,
\* compressImage resolves with the original input file object: the
\* invocation returns, the original is the stored file, and the form's
\* error state is null.
C3_EncoderFallback ==
  [][ (/\ FileCallReturns
       /\ fileDone'[1].orig.size > 1024 * 1024
       /\ fileDone'[1].target # Null
       /\ fileDone'[1].blob = Null)
      => /\ fileDone'[1].pc = "done"
         /\ fileDone'[1].stored = Some(fileDone'[1].orig)
         /\ file' = Some(fileDone'[1].orig)
         /\ error' = Null ]_vars

\* the encoder failed on a canvas that has pixels
C3_Witness ==
  /\ fileDone # Null
  /\ fileDone[1].compress /\ fileDone[1].target # Null
  /\ fileDone[1].canvas.width > 0 /\ fileDone[1].canvas.height > 0
  /\ fileDone[1].blob = Null
  /\ fileDone[1].stored = Some(fileDone[1].orig)
  /\ file = Some(fileDone[1].orig)
  /\ error = Null

\* C4: a file above 1 MiB whose picture is W x H with max(W, H) > 800 gets
\* an output surface whose longer edge is exactly 800 (on the side of the
\* picture's longer edge) and whose shorter edge is less than one pixel
\* away from shorter * 800 / longer; a square picture gets 800 x 800.
C4_AspectRatio ==
  \A c \in AllFileCalls :
    LET W == c.orig.data.width
        H == c.orig.data.height
        cw == c.canvas.width
        ch == c.canvas.height
    IN (c.orig.size > 1024 * 1024 /\ c.target # Null /\ Max(W, H) > 800) =>
         /\ Max(cw, ch) = 800
         /\ W >= H => (cw = 800 /\ Abs(ch * W - H * 800) < W)
         /\ H >= W => (ch = 800 /\ Abs(cw * H - W * 800) < H)
         /\ W = H => (cw = 800 /\ ch = 800)

\* a portrait picture whose shorter edge does not scale to a whole number
C4_Witness ==
  /\ fileDone # Null
  /\ fileDone[1].orig.data.width = 1601 /\ fileDone[1].orig.data.height = 2399
  /\ fileDone[1].canvas = [width |-> 533, height |-> 800]
  /\ fileDone[1].blob # Null

\* C5: the target dimensions of a W x H picture are (800, H*800/W) if W > H
\* and W > 800, (W*800/H, 800) if H >= W and H > 800, and (W, H) otherwise;
\* the surface of a 2400 x 1600 picture is 800 x 533.
C5_TargetDimensions ==
  \A c \in AllFileCalls :
    LET W == c.orig.data.width
        H == c.orig.data.height
    IN c.target # Null =>
         LET t == c.target[1] IN
           /\ (W > H /\ W > 800) => (FracIs(t.width, 800, 1) /\ FracIs(t.height, H * 800, W))
           /\ (H >= W /\ H > 800) => (FracIs(t.width, W * 800, H) /\ FracIs(t.height, 800, 1))
           /\ ~(W > H /\ W > 800) /\ ~(H >= W /\ H > 800)
                => (FracIs(t.width, W, 1) /\ FracIs(t.height, H, 1))
           /\ (W = 2400 /\ H = 1600) => c.canvas = [width |-> 800, height |-> 533]

C5_Witness ==
  /\ fileDone # Null
  /\ fileDone[1].orig.data.width = 2400 /\ fileDone[1].orig.data.height = 1600
  /\ fileDone[1].target # Null
  /\ fileDone[1].canvas = [width |-> 800, height |-> 533]
  /\ file # Null /\ file[1].data.width = 800 /\ file[1].data.height = 533

\* C6: for a file above 1 MiB whose picture fits in 800 x 800, the draw and
\* the encode step are still taken once the picture is measured, the output
\* surface has the picture's dimensions, and the file built from the
\* encoder's payload is an image/jpeg file of those dimensions.
C6_AlwaysReencodes ==
  \A c \in AllFileCalls :
    LET W == c.orig.data.width
        H == c.orig.data.height
    IN (c.orig.size > 1024 * 1024 /\ c.target # Null /\ Max(W, H) <= 800) =>
         /\ c.canvas = [width |-> W, height |-> H]
         /\ c.pc \in {"encoding", "done"} =>
              (SeqContains(c.steps, "draw") /\ SeqContains(c.steps, "encode"))
         /\ c.pc = "done" => (c.blob # Null \/ c.stored = Some(c.orig))
         /\ (c.pc = "done" /\ c.blob # Null) =>
              /\ c.stored # Null
              /\ c.stored[1].type = "image/jpeg"
              /\ c.stored[1].data.width = W /\ c.stored[1].data.height = H
              /\ c.stored[1].data.quality > 0
              /\ file = c.stored

\* a PNG of 400 x 300 pixels and 3 MiB has become a JPEG of 400 x 300
C6_Witness ==
  /\ fileDone # Null
  /\ fileDone[1].orig.type = "image/png"
  /\ fileDone[1].orig.size = 3 * 1024 * 1024
  /\ fileDone[1].orig.data.width = 400 /\ fileDone[1].orig.data.height = 300
  /\ fileDone[1].steps = <<"decode", "measure", "draw", "encode", "construct", "deliver">>
  /\ file # Null /\ file[1].type = "image/jpeg"
  /\ file[1].data.width = 400 /\ file[1].data.height = 300

\* C7: the file that compressImage builds from the encoder's payload has
\* the name of the input file, the type image/jpeg, the clock's value at
\* the moment it is built as its modification time, and the payload the
\* encoder produced for the surface at quality 0.8 as its content; it is a
\* new object, and it becomes the form's stored file.
C7_ReplacementFile ==
  [][ (FileCallReturns /\ fileDone'[1].blob # Null)
      => LET c == fileDone'[1]
             out == c.stored[1]
         IN /\ c.stored # Null
            /\ out.name = c.orig.name
            /\ out.type = "image/jpeg"
            /\ out.lastModified = now
            /\ out.size = c.blob[1].size
            /\ out.data = c.blob[1].data
            /\ out.data = [pic |-> c.orig.data.pic, width |-> c.canvas.width,
                           height |-> c.canvas.height, quality |-> 80]
            /\ out.id # c.orig.id
            /\ file' = Some(out) ]_vars

\* a re-encoded file built after the clock has advanced
C7_Witness ==
  /\ fileDone # Null
  /\ fileDone[1].blob # Null
  /\ file = fileDone[1].stored
  /\ file[1].name = fileDone[1].orig.name
  /\ file[1].lastModified = 2
  /\ file[1].type = "image/jpeg" /\ fileDone[1].orig.type = "image/png"

\* a handleSubmit invocation returns in this step
SubmitCallReturns == submitDone' # Null

C9_FlagsReset ==
  /\ loading ~> ~loading
  /\ loadingEigencam ~> ~loadingEigencam

\* a rejected classification request has left loading false, while a
\* heat-map request of the result before it is still in flight
C9_Witness ==
  /\ submitDone # Null /\ submitDone[1].response # Null
  /\ submitDone[1].response[1].kind = "rejected"
  /\ ~loading
  /\ loadingEigencam /\ eigencamCalls # {}

\* C10: handleGenerateEigencam run while result is null, or while the
\* stored result has no cloudinaryId or no modelName, sets eigencamError to
\* the validation message, sends no request, and leaves loadingEigencam and
\* eigencamUrl as they are.
C10_EigencamPrerequisites ==
  [][ (/\ eigencams' = eigencams + 1
       /\ \/ result = Null
          \/ result[1].data.cloudinaryId = Null
          \/ result[1].data.modelName = Null)
      => /\ eigencamError' = Some(MsgNoIds)
         /\ eigencamCalls' = eigencamCalls
         /\ eigencamDone' # Null
         /\ eigencamDone'[1].id = eigencams'
         /\ eigencamDone'[1].request = Null
         /\ eigencamDone'[1].fetches = 0
         /\ loadingEigencam' = loadingEigencam
         /\ eigencamUrl' = eigencamUrl ]_vars

\* the handler ran on a result without cloudinaryId while an earlier
\* heat-map request was still in flight
C10_Witness ==
  /\ result # Null
  /\ result[1].data.cloudinaryId = Null
  /\ result[1].data.modelName # Null
  /\ eigencamDone # Null
  /\ eigencamDone[1].request = Null /\ eigencamDone[1].fetches = 0
  /\ eigencamError = Some(MsgNoIds)
  /\ loadingEigencam
  /\ eigencamCalls # {}

\* C11: every heat-map request is sent while the stored result is the body
\* of a classification response that has arrived with HTTP ok,
\* success = true, a cloudinaryId and a modelName (the submit that received
\* it is no longer waiting), and the request carries exactly the
\* cloudinaryId and the modelName of the result stored at that moment.
C11_RequestFromResult ==
  [][ \A c \in eigencamCalls' \ eigencamCalls :
        /\ result # Null
        /\ result[1].success
        /\ result[1].data.cloudinaryId # Null
        /\ result[1].data.modelName # Null
        /\ c.request # Null
        /\ c.fetches = 1
        /\ c.request[1].cloudinary_id = result[1].data.cloudinaryId
        /\ c.request[1].model_name = result[1].data.modelName
        /\ \E i \in 1..submits :
             /\ \A s \in submitCalls : s.id # i
             /\ \E r \in AnalyzeResponses(i) :
                  r.kind = "response" /\ r.ok /\ r.body = result ]_vars

\* a heat-map request for the result of the second submit is in flight,
\* while the first submit still waits for its response
C11_Witness ==
  /\ result # Null
  /\ result[1].data.cloudinaryId = Some(2)
  /\ \E s \in submitCalls : s.id = 1
  /\ \E c \in eigencamCalls :
       /\ c.request # Null
       /\ c.request[1].cloudinary_id = Some(2)
       /\ c.request[1].model_name = result[1].data.modelName

\* C12: the request a handleSubmit invocation sends carries as image the
\* File stored when the handler started and as clinical_info the JSON text
\* of an object whose initial_diagnosis and symptoms are those of the
\* clinical info at that moment; a request in flight stays as it was sent,
\* whatever happens to the stored file and the clinical info, until the
\* invocation returns with that same request.
C12_RequestSnapshot ==
  [][ /\ \A c \in submitCalls' \ submitCalls :
           /\ file # Null
           /\ c.request # Null
           /\ c.request[1].image = file[1]
           /\ LET j == c.request[1].clinical_info IN
                /\ Len(j) = 10 + Len(clinicalInfo.symptoms)
                /\ j[1] = "{" /\ j[Len(j)] = "}"
                /\ j[2] = "initial_diagnosis" /\ j[4] = clinicalInfo.initial_diagnosis
                /\ j[6] = "symptoms" /\ j[8] = "[" /\ j[Len(j) - 1] = "]"
                /\ SubSeq(j, 9, Len(j) - 2) = clinicalInfo.symptoms
      /\ \A c \in submitCalls :
           \/ c \in submitCalls'
           \/ /\ submitDone' # Null
              /\ submitDone'[1].id = c.id
              /\ submitDone'[1].request = c.request ]_vars

\* a request sent with a file, a diagnosis and a symptom is still in
\* flight after the file was removed and the symptom unchecked
C12_Witness ==
  /\ file = Null
  /\ clinicalInfo.symptoms = <<>>
  /\ \E c \in submitCalls :
       /\ c.request # Null
       /\ c.request[1].image.name = "small.png"
       /\ c.request[1].clinical_info =
            <<"{", "initial_diagnosis", ":", "Pneumonia", ",", "symptoms", ":", "[",
              "fever", "]", "}">>

\* C13: the preprocessing path is the identity on a file of at most
\* 1024*1024 bytes, and so is its second application: handleFileChange run
\* on such a file stores that very File object, and run again on the file
\* it stored leaves the stored file the same object.
C13_IdempotentOnSmall ==
  [][ (FileCallReturns /\ fileDone'[1].orig.size <= 1024 * 1024)
      => /\ fileDone'[1].stored = Some(fileDone'[1].orig)
         /\ file' = Some(fileDone'[1].orig)
         /\ ~fileDone'[1].compress
         /\ (file # Null /\ fileDone'[1].orig = file[1]) => file' = file ]_vars

\* the second application to a file of exactly 1 MiB that the first
\* application stored
C13_Witness ==
  /\ selections = 2
  /\ fileDone # Null
  /\ fileDone[1].orig.id = [sel |-> 1, gen |-> 0]
  /\ fileDone[1].orig.size = 1024 * 1024
  /\ file = Some(fileDone[1].orig)

\* the steps of one compressImage invocation, in the order of the claim
StepOrder == <<"decode", "measure", "draw", "encode", "construct", "deliver">>
StepIndex(s) == CHOOSE i \in 1..Len(StepOrder) : StepOrder[i] = s

\* C14: the steps an invocation of compressImage has taken are in the order
\* decode, measure, draw, encode, construct, deliver, each at most once and
\* each after the step it builds on (the file is constructed only from an
\* encoder payload, the result is delivered after the encode step and, when
\* a file was constructed, after the construction); each step has the
\* product of the step before it, and an invocation that has returned
\* delivered exactly once.
C14_StepsInOrder ==
  \A c \in AllFileCalls :
    LET n == Len(c.steps)
        has(s) == SeqContains(c.steps, s)
    IN /\ \A i \in 1..n : c.steps[i] \in {StepOrder[k] : k \in 1..Len(StepOrder)}
       /\ \A i, j \in 1..n : i < j => StepIndex(c.steps[i]) < StepIndex(c.steps[j])
       /\ has("measure") => has("decode")
       /\ has("draw") => has("measure")
       /\ has("encode") => has("draw")
       /\ has("construct") => has("encode")
       /\ has("deliver") => has("encode")
       /\ has("measure") => c.target # Null
       /\ has("draw") =>
            /\ c.canvas.width = c.target[1].width.num \div c.target[1].width.den
            /\ c.canvas.height = c.target[1].height.num \div c.target[1].height.den
       /\ has("construct") <=> c.blob # Null
       /\ has("construct") =>
            /\ c.blob[1].data.width = c.canvas.width
            /\ c.blob[1].data.height = c.canvas.height
            /\ has("deliver")
       /\ has("deliver") <=> (c.compress /\ c.pc = "done")
       /\ has("deliver") =>
            /\ c.steps[n] = "deliver"
            /\ c.stored # Null
            /\ c.blob # Null => c.stored[1].data = c.blob[1].data
            /\ c.blob = Null => c.stored[1] = c.orig
       /\ c \in fileCalls => ~has("deliver")

\* an invocation has gone through all six steps
C14_Witness ==
  /\ fileDone # Null
  /\ fileDone[1].steps = StepOrder
  /\ fileDone[1].blob # Null
  /\ fileDone[1].stored # Null
  /\ fileDone[1].stored[1].data.width = 533
  /\ fileCalls = {}

\* C15: an invocation of handleFileChange whose image has not been decoded
\* (the load is pending, or it has failed) does not return: in every step
\* it stays suspended with nothing stored, an invocation whose load has
\* failed stays exactly as it is, and a step in which no invocation of
\* handleFileChange returns stores no file and, unless it starts a submit
\* or a heat-map request, clears none of result, error, eigencamUrl and
\* eigencamError.
C15_StalledDecodeSuspends ==
  [][ \A c \in fileCalls :
        c.pc \in {"decoding", "error"} =>
          /\ \E d \in fileCalls' : d.orig = c.orig /\ d.pc # "done" /\ d.stored = Null
          /\ fileDone' # Null => fileDone'[1].orig.id.sel # c.orig.id.sel
          /\ c.pc = "error" => c \in fileCalls'
          /\ fileDone' = Null =>
               /\ file' = file \/ file' = Null
               /\ (submits' = submits /\ eigencams' = eigencams) =>
                    /\ result # Null => result' # Null
                    /\ error # Null => error' # Null
                    /\ eigencamUrl # Null => eigencamUrl' # Null
                    /\ eigencamError # Null => eigencamError' # Null ]_vars

\* the decode of the second selection has failed: its invocation is
\* suspended, the file of the first selection is still stored, and the
\* result and the heat map obtained for it are still there
C15_Witness ==
  /\ \E c \in fileCalls : c.pc = "error" /\ c.orig.id.sel = 2
  /\ fileDone = Null
  /\ file # Null /\ file[1].id.sel = 1
  /\ result # Null
  /\ eigencamUrl # Null

\* C16: whatever other invocations of compressImage are in flight, the
\* surface of an invocation is sized from its own picture alone, the
\* payload the encoder delivers to it shows its own picture at the size of
\* its own surface, and the file it resolves with is made of that payload
\* and of the name of its own input (or is its own input).
C16_OwnSurface ==
  \A c \in AllFileCalls :
    LET t == TargetDimensions(c.orig.data.width, c.orig.data.height) IN
      /\ c.target # Null =>
           /\ c.target = Some(t)
           /\ c.canvas = [width |-> ToUnsignedLong(t.width),
                          height |-> ToUnsignedLong(t.height)]
      /\ c.blob # Null =>
           /\ c.blob[1].data.pic = c.orig.data.pic
           /\ c.blob[1].data.width = ToUnsignedLong(t.width)
           /\ c.blob[1].data.height = ToUnsignedLong(t.height)
      /\ (c.stored # Null /\ c.blob # Null) =>
           /\ c.stored[1].data = c.blob[1].data
           /\ c.stored[1].name = c.orig.name
           /\ c.stored[1].id.sel = c.orig.id.sel
      /\ (c.stored # Null /\ c.blob = Null) => c.stored[1] = c.orig

\* the first selection has got its 800 x 533 file while the second, whose
\* surface is 400 x 800, waits for its encoder
C16_Witness ==
  /\ fileDone # Null
  /\ fileDone[1].orig.id.sel = 1
  /\ fileDone[1].blob # Null
  /\ fileDone[1].stored # Null
  /\ fileDone[1].stored[1].data.width = 800 /\ fileDone[1].stored[1].data.height = 533
  /\ \E d \in fileCalls :
       /\ d.orig.id.sel = 2
       /\ d.pc = "encoding"
       /\ d.canvas = [width |-> 400, height |-> 800]

\* C17: the stored file changes only in a step in which an invocation of
\* handleFileChange returns or the remove-file button is pressed; a step of
\* handleSubmit or handleGenerateEigencam (its start or the settling of its
\* request, whatever the outcome), of the diagnosis or the symptom handler,
\* or of the API-mode toggle leaves the stored file as it is.
C17_FileFrame ==
  [][ /\ file' # file => (FileCallReturns \/ RemoveFile)
      /\ (\/ submits' # submits
          \/ submitDone' # Null
          \/ eigencams' # eigencams
          \/ eigencamDone' # Null
          \/ clinicalInfo' # clinicalInfo
          \/ useOptimizedAPI' # useOptimizedAPI) => file' = file ]_vars

\* the re-encoded file is still stored after a diagnosis and a symptom were
\* chosen, the API mode was switched, a submit succeeded and the heat-map
\* request for its result failed
C17_Witness ==
  /\ file # Null
  /\ file[1].id = [sel |-> 1, gen |-> 1]
  /\ clinicalInfo = [initial_diagnosis |-> "Pneumonia", symptoms |-> <<"fever">>]
  /\ ~useOptimizedAPI
  /\ result # Null
  /\ eigencamDone # Null
  /\ eigencamDone[1].response # Null
  /\ eigencamError # Null

\* C18: every temporary resource an invocation of compressImage allocated
\* is released by the time the invocation has delivered its result: no
\* invocation that went through compressImage and has returned still holds
\* the object URL it created for its input.
C18_ResourcesReleased ==
  \A c \in AllFileCalls : (c.compress /\ c.pc = "done") => ~c.objectURL

\* C19: latest selection wins: once no invocation of handleFileChange is
\* pending, a stored file is the File of the most recent selection or the
\* File re-encoded from it.
C19_LatestSelectionWins ==
  (fileCalls = {} /\ file # Null) => file[1].id.sel = selections

\* C20: whenever a heat-map URL is stored while a classification result is
\* stored, the URL is the answer to a heat-map request for that result: it
\* was made for the cloudinaryId and the modelName of the stored result.
C20_HeatmapOfCurrentResult ==
  (eigencamUrl # Null /\ result # Null) =>
    /\ eigencamUrl[1].cloudinary_id = result[1].data.cloudinaryId
    /\ eigencamUrl[1].model_name = result[1].data.modelName

\* C21: a result that is stored while a file is stored is the response to a
\* classification request whose image was that file: when a handleSubmit
\* invocation has just stored the body of its response as the result, the
\* image of its request is the file the form holds.
C21_ResultOfStoredFile ==
  (/\ submitDone # Null
   /\ submitDone[1].response # Null
   /\ result # Null
   /\ result = submitDone[1].response[1].body
   /\ file # Null)
  => file[1] = submitDone[1].request[1].image

\* C22: the request a handleSubmit invocation sends carries the File of the
\* most recent selection, or the File re-encoded from it, also when the
\* compression of that selection is still pending.
C22_SubmitsLatestSelection ==
  [][ \A c \in submitCalls' \ submitCalls :
        c.request # Null => c.request[1].image.id.sel = selections ]_vars

\* C23: on the rendered form no handleSubmit starts while loading is true
\* and no handleGenerateEigencam starts while loadingEigencam is true, and
\* at any time at most one classification request and at most one heat-map
\* request are in flight.
C23_OneRequestInFlight ==
  [][ /\ submits' # submits => ~loading
      /\ eigencams' # eigencams => ~loadingEigencam
      /\ Cardinality(submitCalls') <= 1
      /\ Cardinality(eigencamCalls') <= 1
      /\ loading' <=> submitCalls' # {}
      /\ loadingEigencam' <=> eigencamCalls' # {} ]_vars

\* the second submit is in flight together with the heat-map request for
\* the result of the first
C23_Witness ==
  /\ submits = 2
  /\ loading /\ Cardinality(submitCalls) = 1
  /\ loadingEigencam /\ Cardinality(eigencamCalls) = 1

C25_ResultXorError ==
  [][ /\ (SubmitCallReturns /\ submitDone'[1].response # Null) =>
           LET r == submitDone'[1].response[1]
               succeeded == /\ r.kind = "response" /\ r.ok
                            /\ r.body # Null /\ r.body[1].success
           IN /\ (result' # Null) # (error' # Null)
              /\ succeeded => (result' = r.body /\ error' = Null)
              /\ ~succeeded => (result' = Null /\ error' # Null /\ error'[1] # "")
      /\ result' # Null => result'[1].success ]_vars

\* the second submit has succeeded after the first had failed
C25_Witness ==
  /\ submitDone # Null
  /\ submitDone[1].id = 2
  /\ submitDone[1].response # Null
  /\ result # Null
  /\ result = submitDone[1].response[1].body
  /\ result[1].data.cloudinaryId = Some(2)
  /\ error = Null
  /\ eigencamCalls = {} /\ eigencams = 0

\* C26: in the step in which an invocation of handleFileChange returns, the
\* file it stored (the original or the re-encoded one) is the form's file
\* and result, error, eigencamUrl and eigencamError are all null; a change
\* event of the file input that carries no file changes nothing of the
\* form and starts nothing.
C26_SelectionClears ==
  [][ /\ FileCallReturns =>
           /\ fileDone'[1].stored # Null
           /\ file' = fileDone'[1].stored
           /\ result' = Null
           /\ error' = Null
           /\ eigencamUrl' = Null
           /\ eigencamError' = Null
      /\ (selections' # selections /\ fileCalls' = fileCalls /\ fileDone' = Null) =>
           /\ UNCHANGED formVars
           /\ UNCHANGED <<submitCalls, submits, eigencamCalls, eigencams>> ]_vars

\* the second selection has completed after a submit and a heat-map
\* request of the first file had both returned
C26_Witness ==
  /\ selections = 2
  /\ fileDone # Null
  /\ fileDone[1].orig.id.sel = 2
  /\ file = fileDone[1].stored
  /\ submits = 1 /\ submitCalls = {}
  /\ eigencams = 1 /\ eigencamCalls = {}
  /\ result = Null /\ error = Null /\ eigencamUrl = Null /\ eigencamError = Null

\* C27: handleSubmit run while no file is stored sets error to the message
\* that asks for a file, returns at once without sending a request, and
\* leaves loading, result, eigencamUrl and eigencamError as they are.
C27_SubmitWithoutFile ==
  [][ (submits' = submits + 1 /\ file = Null)
      => /\ error' = Some("Vui long chon file anh X-quang!")
         /\ submitCalls' = submitCalls
         /\ submitDone' # Null
         /\ submitDone'[1].id = submits'
         /\ submitDone'[1].request = Null
         /\ submitDone'[1].fetches = 0
         /\ loading' = loading
         /\ result' = result
         /\ eigencamUrl' = eigencamUrl
         /\ eigencamError' = eigencamError
         /\ file' = Null ]_vars

\* the handler ran after the file was removed, while the result and the
\* heat map of that file were stored: both are still there
C27_Witness ==
  /\ file = Null
  /\ submitDone # Null
  /\ submitDone[1].request = Null /\ submitDone[1].fetches = 0
  /\ error = Some(MsgChooseFile)
  /\ result # Null
  /\ eigencamUrl # Null
  /\ ~loading

====
